---- MODULE Spec2Model ----
(***************************************************************************)
(* A model of the SVG document normalizer of src/svg.py (class SVG and its *)
(* element codec) and of the affine-transform helpers exercised by         *)
(* src/tests/svg_transform_test.py.                                        *)
(*                                                                         *)
(* The element tree is a heap of nodes (tag, attrib, kids, parent), so     *)
(* that node handles held by SVG.elements, getparent() and replace() mean  *)
(* what they mean in the tree library.  The bytes etree.tostring produces  *)
(* are modelled by the structure they are a canonical rendering of         *)
(* (Extract); text and tail nodes are not modelled.                        *)
(***************************************************************************)
EXTENDS Integers, Sequences, FiniteSets, TLC

VARIABLES
  heap,      \* Seq of nodes: every element object ever attached or parsed
  svgs,      \* Seq of SVG objects: [svg_root, elements]
  last,      \* what the last call was and how it ended
  codec,     \* state of the element codec exercise (SpecCodec)
  affine     \* state of the transform exercise (SpecAffine)

vars == <<heap, svgs, last, codec, affine>>

(***************************************************************************)
(* Bounds of the model.                                                    *)
(***************************************************************************)
MaxSVGs == 2          \* SVG objects alive at once (the source and copies)

(***************************************************************************)
(* Tags and the class tables, src/svg.py lines 6-25.                       *)
(***************************************************************************)
svgns == "http://www.w3.org/2000/svg"

NsTag(k) == "{" \o svgns \o "}" \o k

ShapeNames == {"circle", "ellipse", "line", "path", "polygon", "polyline", "rect"}

ClassOf(k) ==
  CASE k = "circle"   -> "SVGCircle"
    [] k = "ellipse"  -> "SVGEllipse"
    [] k = "line"     -> "SVGLine"
    [] k = "path"     -> "SVGPath"
    [] k = "polygon"  -> "SVGPolygon"
    [] k = "polyline" -> "SVGPolyline"
    [] k = "rect"     -> "SVGRect"

\* the dict after line 16: the plain names of line 6-14 stay as keys and
\* the namespaced names are added by update()
_ELEMENT_CLASSES ==
  [t \in ShapeNames \cup {NsTag(k) : k \in ShapeNames} |->
     IF t \in ShapeNames THEN ClassOf(t)
     ELSE ClassOf(CHOOSE k \in ShapeNames : NsTag(k) = t)]

Classes == {ClassOf(k) : k \in ShapeNames}

\* line 15: built from the dict of lines 6-14, before the update of line 16
_CLASS_ELEMENTS ==
  [c \in Classes |-> NsTag(CHOOSE k \in ShapeNames : ClassOf(k) = c)]

_OMIT_FIELD_IF_BLANK == {"clip_path"}

_ATTR_RENAMES == [a \in {"clip-path"} |-> "clip_path"]

_FIELD_RENAMES ==
  [f \in {_ATTR_RENAMES[a] : a \in DOMAIN _ATTR_RENAMES} |->
     CHOOSE a \in DOMAIN _ATTR_RENAMES : _ATTR_RENAMES[a] = f]

\* _FIELD_RENAMES.get(name, name)
FieldRename(name) ==
  IF name \in DOMAIN _FIELD_RENAMES THEN _FIELD_RENAMES[name] ELSE name

(***************************************************************************)
(* The shape dataclasses (svg_types, imported at line 4; its source is not *)
(* among the files, the fields are those of the specification's data       *)
(* model).  A number is written "#<canonical digits>", a string is itself. *)
(***************************************************************************)
Fields(cls) ==
  CASE cls = "SVGCircle"   -> <<"clip_path", "cx", "cy", "r">>
    [] cls = "SVGEllipse"  -> <<"clip_path", "cx", "cy", "rx", "ry">>
    [] cls = "SVGLine"     -> <<"clip_path", "x1", "y1", "x2", "y2">>
    [] cls = "SVGPath"     -> <<"clip_path", "d">>
    [] cls = "SVGPolygon"  -> <<"clip_path", "points">>
    [] cls = "SVGPolyline" -> <<"clip_path", "points">>
    [] cls = "SVGRect"     -> <<"clip_path", "x", "y", "width", "height", "rx", "ry">>

FieldSet(cls) == {Fields(cls)[i] : i \in 1..Len(Fields(cls))}

FieldType(f) == IF f \in {"clip_path", "d", "points"} THEN "str" ELSE "float"

FieldDefault(f) == IF FieldType(f) = "str" THEN "" ELSE "#0.0"

Numbers == {"#0.0", "#1.0", "#2.0"}

\* float(v) and str(v): whether the call returns, and what
CanConvert(type, v) ==
  type = "str" \/ v \in Numbers \/ v \in {"0", "1", "1.0", "2"}

Convert(type, v) ==
  IF type = "float"
  THEN CASE v \in Numbers -> v
         [] v = "0" -> "#0.0"
         [] v \in {"1", "1.0"} -> "#1.0"
         [] v = "2" -> "#2.0"
  ELSE CASE v = "#0.0" -> "0.0"
         [] v = "#1.0" -> "1.0"
         [] v = "#2.0" -> "2.0"
         [] OTHER -> v

Ok(v) == [err |-> "", val |-> v]
Raise(e) == [err |-> e, val |-> <<>>]

(***************************************************************************)
(* Elements as values and as heap nodes.                                   *)
(***************************************************************************)
NoAttrib == [a \in {} |-> ""]

El(tag, attrib, kids) == [tag |-> tag, attrib |-> attrib, kids |-> kids]

RECURSIVE Load(_, _, _)
RECURSIVE LoadKids(_, _, _)
\* the heap with the tree t added below parent (0: no parent), in document
\* order; the subtree's root is node Len(h) + 1
Load(h, t, parent) ==
  LoadKids(Append(h, [tag |-> t.tag, attrib |-> t.attrib,
                      kids |-> <<>>, parent |-> parent]),
           t.kids, Len(h) + 1)

LoadKids(h, ks, id) ==
  IF ks = <<>> THEN h
  ELSE LoadKids([Load(h, Head(ks), id) EXCEPT ![id].kids = Append(@, Len(h) + 1)],
                Tail(ks), id)

RECURSIVE Extract(_, _)
\* the tree below node id as a value: what etree.tostring renders
Extract(h, id) ==
  [tag |-> h[id].tag, attrib |-> h[id].attrib,
   kids |-> [i \in 1..Len(h[id].kids) |-> Extract(h, h[id].kids[i])]]

RECURSIVE Iter(_, _)
RECURSIVE IterKids(_, _)
\* el.iter('*'): the node and its descendants in document order
Iter(h, id) == <<id>> \o IterKids(h, h[id].kids)

IterKids(h, ks) ==
  IF ks = <<>> THEN <<>> ELSE Iter(h, Head(ks)) \o IterKids(h, Tail(ks))

Range(s) == {s[i] : i \in 1..Len(s)}

(***************************************************************************)
(* The codec, src/svg.py lines 27-42.                                      *)
(***************************************************************************)
_el_to_data(el) ==
  IF el.tag \notin DOMAIN _ELEMENT_CLASSES THEN Raise("ValueError")
  ELSE
    LET data_type == _ELEMENT_CLASSES[el.tag]
        present == {f \in FieldSet(data_type) : FieldRename(f) \in DOMAIN el.attrib}
    IN IF \E f \in present : ~CanConvert(FieldType(f), el.attrib[FieldRename(f)])
       THEN Raise("ValueError")
       ELSE Ok([cls |-> data_type,
                fields |-> [f \in FieldSet(data_type) |->
                              IF f \in present
                              THEN Convert(FieldType(f), el.attrib[FieldRename(f)])
                              ELSE FieldDefault(f)]])

\* "not field_value"
Blank(v) == v \in {"", "#0.0"}

\* _data_to_el without the test of line 39: a blank clip_path is written too
_data_to_el_KeepBlank(data_obj) ==
  El(_CLASS_ELEMENTS[data_obj.cls],
     [a \in {FieldRename(f) : f \in DOMAIN data_obj.fields} |->
        data_obj.fields[CHOOSE f \in DOMAIN data_obj.fields : FieldRename(f) = a]],
     <<>>)

_data_to_el(data_obj) ==
  LET emitted == {f \in DOMAIN data_obj.fields :
                    ~(f \in _OMIT_FIELD_IF_BLANK /\ Blank(data_obj.fields[f]))}
  IN El(_CLASS_ELEMENTS[data_obj.cls],
        [a \in {FieldRename(f) : f \in emitted} |->
           data_obj.fields[CHOOSE f \in emitted : FieldRename(f) = a]],
        <<>>)

(***************************************************************************)
(* as_path of the shape dataclasses (svg_types, not among the files):      *)
(* a path returns itself, any other shape gives a new path that keeps      *)
(* clip_path and whose d is determined by the shape's class and geometry.  *)
(* Point lists are parsed, and a malformed one makes the conversion raise. *)
(***************************************************************************)
WellFormedPoints == {"", "0,0 1,1", "2,2 1,0"}

RECURSIVE Geometry(_, _)
Geometry(data, fs) ==
  IF fs = <<>> THEN ""
  ELSE (IF Head(fs) = "clip_path" THEN ""
        ELSE " " \o Head(fs) \o "=" \o Convert("str", data.fields[Head(fs)]))
       \o Geometry(data, Tail(fs))

as_path(data) ==
  IF data.cls = "SVGPath" THEN Ok(data)
  ELSE IF "points" \in DOMAIN data.fields /\ data.fields["points"] \notin WellFormedPoints
  THEN Raise("ValueError")
  ELSE Ok([cls |-> "SVGPath",
           fields |-> [f \in FieldSet("SVGPath") |->
                         IF f = "clip_path" THEN data.fields["clip_path"]
                         ELSE "path of " \o data.cls \o Geometry(data, Fields(data.cls))]])

(***************************************************************************)
(* class SVG, src/svg.py lines 54-118.                                     *)
(***************************************************************************)
None == [none |-> TRUE, list |-> <<>>]
List(l) == [none |-> FALSE, list |-> l]

\* "if self.elements": None and the empty list are both false
Truthy(elements) == ~elements.none /\ elements.list # <<>>

\* __init__
SVG(svg_root) == [svg_root |-> svg_root, elements |-> None]

RECURSIVE DecodeAll(_, _)
\* the loop of lines 62-66 over the nodes ids; a raise ends it
DecodeAll(h, ids) ==
  IF ids = <<>> THEN Ok(<<>>)
  ELSE IF h[Head(ids)].tag \notin DOMAIN _ELEMENT_CLASSES
  THEN DecodeAll(h, Tail(ids))
  ELSE LET d == _el_to_data(h[Head(ids)])
       IN IF d.err # "" THEN Raise(d.err)
          ELSE LET rest == DecodeAll(h, Tail(ids))
               IN IF rest.err # "" THEN rest
                  ELSE Ok(<<<<Head(ids), d.val>>>> \o rest.val)

\* the list _elements() returns (and leaves in self.elements), or the raise
_elements(h, self) ==
  IF Truthy(self.elements) THEN Ok(self.elements.list)
  ELSE DecodeAll(h, Iter(h, self.svg_root))

RECURSIVE ConvertLoop(_, _)
\* lines 81-82: self.elements[idx] is overwritten index by index, so a
\* raise at idx leaves the entries before idx converted
ConvertLoop(list, idx) ==
  IF idx > Len(list) THEN [err |-> "", val |-> list]
  ELSE LET p == as_path(list[idx][2])
       IN IF p.err # "" THEN [err |-> p.err, val |-> list]
          ELSE ConvertLoop([list EXCEPT ![idx] = <<list[idx][1], p.val>>], idx + 1)

\* shapes_to_paths(inplace=True), lines 80-83: the SVG object afterwards
ShapesToPathsInPlace(h, self) ==
  LET r == _elements(h, self)
  IN IF r.err # "" THEN [err |-> r.err, val |-> self]
     ELSE LET c == ConvertLoop(r.val, 1)
          IN [err |-> c.err, val |-> [self EXCEPT !.elements = List(c.val)]]

\* a copy that is the same tree: SVG(self.svg_root) at line 76
deepcopy_SameTree(h, root) == [heap |-> h, root |-> root]

\* copy.deepcopy(self.svg_root): a new tree of new nodes
deepcopy(h, root) == [heap |-> Load(h, Extract(h, root), 0), root |-> Len(h) + 1]

\* old_el.getparent().replace(old_el, new_el), lines 110-111
Replace(h, old_el, new_el) ==
  LET parent == h[old_el].parent
      kids == h[parent].kids
  IN [h EXCEPT ![parent].kids = [i \in 1..Len(kids) |->
                                   IF kids[i] = old_el THEN new_el ELSE kids[i]],
               ![new_el].parent = parent,
               ![old_el].parent = 0]

RECURSIVE CreateAll(_, _)
\* lines 106-108: one new element per cached shape; the i-th is node
\* Len(h) + i of the heap returned
CreateAll(h, elements) ==
  IF elements = <<>> THEN h
  ELSE CreateAll(Load(h, _data_to_el(Head(elements)[2]), 0), Tail(elements))

RECURSIVE ApplySwaps(_, _, _)
\* lines 109-111: getparent() of a detached node is None, and None has no
\* replace
ApplySwaps(h, elements, new_el) ==
  IF elements = <<>> THEN [err |-> "", val |-> h, used |-> new_el - 1]
  ELSE IF h[Head(elements)[1]].parent = 0
  THEN [err |-> "AttributeError", val |-> h, used |-> new_el - 1]
  ELSE ApplySwaps(Replace(h, Head(elements)[1], new_el), Tail(elements), new_el + 1)

\* the tree after tostring(), lines 105-111; elements that were created
\* and never attached are garbage and leave the heap
SwapAll(h, elements) ==
  LET r == ApplySwaps(CreateAll(h, elements), elements, Len(h) + 1)
  IN [err |-> r.err, val |-> SubSeq(r.val, 1, r.used)]

Call(op, n, inplace, err, ret) ==
  [op |-> op, self |-> n, inplace |-> inplace, err |-> err, ret |-> ret]

shapes(n) ==
  /\ n \in 1..Len(svgs)
  /\ LET r == _elements(heap, svgs[n])
     IN /\ svgs' = IF r.err = "" THEN [svgs EXCEPT ![n].elements = List(r.val)]
                   ELSE svgs
        /\ last' = Call("shapes", n, FALSE, r.err, IF r.err = "" THEN n ELSE 0)
  /\ UNCHANGED <<heap, codec, affine>>

shapes_to_paths(n, inplace) ==
  /\ n \in 1..Len(svgs)
  /\ IF inplace
     THEN LET r == ShapesToPathsInPlace(heap, svgs[n])
          IN /\ svgs' = [svgs EXCEPT ![n] = r.val]
             /\ heap' = heap
             /\ last' = Call("shapes_to_paths", n, TRUE, r.err,
                             IF r.err = "" THEN n ELSE 0)
     ELSE /\ Len(svgs) < MaxSVGs
          /\ LET cp == deepcopy(heap, svgs[n].svg_root)
                 r == ShapesToPathsInPlace(cp.heap, SVG(cp.root))
             IN IF r.err = ""
                THEN /\ heap' = cp.heap
                     /\ svgs' = Append(svgs, r.val)
                     /\ last' = Call("shapes_to_paths", n, FALSE, "", Len(svgs) + 1)
                ELSE /\ heap' = heap
                     /\ svgs' = svgs
                     /\ last' = Call("shapes_to_paths", n, FALSE, r.err, 0)
  /\ UNCHANGED <<codec, affine>>

apply_clip_paths(n, inplace) ==
  /\ n \in 1..Len(svgs)
  /\ IF inplace
     THEN /\ UNCHANGED <<heap, svgs>>
          /\ last' = Call("apply_clip_paths", n, TRUE, "", n)
     ELSE /\ Len(svgs) < MaxSVGs
          /\ LET cp == deepcopy(heap, svgs[n].svg_root)
             IN /\ heap' = cp.heap
                /\ svgs' = Append(svgs, SVG(cp.root))
                /\ last' = Call("apply_clip_paths", n, FALSE, "", Len(svgs) + 1)
  /\ UNCHANGED <<codec, affine>>

tostring(n) ==
  /\ n \in 1..Len(svgs)
  /\ LET r == IF Truthy(svgs[n].elements) THEN SwapAll(heap, svgs[n].elements.list)
              ELSE [err |-> "", val |-> heap]
     IN /\ heap' = r.val
        /\ last' = Call("tostring", n, FALSE, r.err, 0)
  /\ UNCHANGED <<svgs, codec, affine>>

(***************************************************************************)
(* The documents fromstring() is given.                                    *)
(***************************************************************************)
Svg(kids) == El(NsTag("svg"), NoAttrib, kids)
ClipC == "clip-path" :> "url(#c)"

Docs ==
  { \* every kind of shape, grouped and not, a blank d, a blank clip-path
    Svg(<<El(NsTag("circle"), [r |-> "1"], <<>>),
          El(NsTag("g"), NoAttrib,
             <<El(NsTag("rect"), [width |-> "1", height |-> "2"], <<>>),
               El(NsTag("path"), [d |-> ""], <<>>)>>)>>),
    Svg(<<El(NsTag("ellipse"), [rx |-> "1", ry |-> "2"], <<>>),
          El(NsTag("line"), [x2 |-> "1"], <<>>),
          El(NsTag("polyline"), [points |-> "2,2 1,0"], <<>>),
          El(NsTag("polygon"), ("clip-path" :> "") @@ [points |-> "0,0 1,1"], <<>>)>>),
    \* a shape with an attribute that is no field, and with a child
    Svg(<<El(NsTag("path"), [d |-> "M0,0", id |-> "x"],
             <<El(NsTag("title"), NoAttrib, <<>>)>>)>>),
    \* a shape tag without the namespace
    Svg(<<El("circle", [r |-> "1.0"], <<>>)>>),
    \* a shape below a shape
    Svg(<<El(NsTag("path"), [d |-> "M0,0"],
             <<El(NsTag("path"), [d |-> "M1,1"], <<>>)>>)>>),
    \* a clip container and two shapes that refer to it
    Svg(<<El(NsTag("defs"), NoAttrib,
             <<El(NsTag("clipPath"), [id |-> "c"],
                  <<El(NsTag("path"), [d |-> "M0,0"], <<>>)>>)>>),
          El(NsTag("path"), ClipC @@ [d |-> "M1,1"], <<>>),
          El(NsTag("circle"), ClipC @@ [r |-> "2"], <<>>)>>),
    \* a number that float() rejects, after a shape that decodes
    Svg(<<El(NsTag("circle"), [r |-> "1"], <<>>),
          El(NsTag("circle"), [r |-> "big"], <<>>)>>),
    \* a point list that as_path rejects, between shapes that convert
    Svg(<<El(NsTag("polygon"), [points |-> "0,0 1,1"], <<>>),
          El(NsTag("polyline"), [points |-> "0,0 1"], <<>>),
          El(NsTag("line"), [x1 |-> "1"], <<>>)>>),
    \* no shape at all
    Svg(<<El(NsTag("g"), [id |-> "x"], <<>>)>>),
    \* a document whose root is a shape
    El(NsTag("path"), [d |-> "M0,0"], <<>>) }

NoCodec == [pc |-> "off"]
NoAffine == [pc |-> "off"]

\* SVG.fromstring(string), line 114-115
Init ==
  /\ \E doc \in Docs : heap = Load(<<>>, doc, 0)
  /\ svgs = <<SVG(1)>>
  /\ last = Call("fromstring", 1, FALSE, "", 1)
  /\ codec = NoCodec
  /\ affine = NoAffine

Next ==
  \E n \in 1..MaxSVGs :
    \/ shapes(n)
    \/ \E inplace \in BOOLEAN : shapes_to_paths(n, inplace)
    \/ \E inplace \in BOOLEAN : apply_clip_paths(n, inplace)
    \/ tostring(n)

Spec == Init /\ [][Next]_vars

(***************************************************************************)
(* What the properties below speak about.                                  *)
(***************************************************************************)
\* what shapes() returns for the SVG object self: the raise, or the tuple
ShapesOf(h, self) ==
  LET r == _elements(h, self)
  IN IF r.err # "" THEN r ELSE Ok([i \in 1..Len(r.val) |-> r.val[i][2]])

\* the nodes an SVG object can reach: its tree, and the nodes its cache holds
\* with what hangs below them
Owned(h, self) ==
  Range(Iter(h, self.svg_root))
    \cup UNION {Range(Iter(h, self.elements.list[i][1])) :
                  i \in 1..Len(self.elements.list)}

\* the call of this step left SVG object n as it was: the object, every node
\* it can reach, and so the bytes it serializes to
Kept(n) ==
  /\ svgs'[n] = svgs[n]
  /\ \/ heap' = heap
     \/ /\ \A id \in Owned(heap, svgs[n]) : heap'[id] = heap[id]
        /\ Extract(heap', svgs'[n].svg_root) = Extract(heap, svgs[n].svg_root)

\* the cache of self holds a shape that is no longer what its element decodes to
Converted(h, self) ==
  \E i \in 1..Len(self.elements.list) :
    _el_to_data(h[self.elements.list[i][1]]).val # self.elements.list[i][2]

BasicClasses == Classes \ {"SVGPath"}

\* C1: shapes_to_paths(inplace=False) leaves the source as it was (object,
\* tree, cache, hence bytes), whatever state the source is in; no two SVG
\* objects share a node; and a call on one SVG object changes no other.
C1_CopyLeavesSource ==
  /\ [](\A m, n \in 1..Len(svgs) :
          m # n => Owned(heap, svgs[m]) \cap Owned(heap, svgs[n]) = {})
  /\ [][/\ (last'.op = "shapes_to_paths" /\ ~last'.inplace) => Kept(last'.self)
        /\ \A n \in 1..Len(svgs) : n # last'.self => Kept(n)]_vars

\* a copy has just been returned for a source whose cache was populated and
\* converted in place
C1_Witness ==
  /\ last.op = "shapes_to_paths" /\ ~last.inplace /\ last.err = ""
  /\ last.ret # last.self
  /\ Truthy(svgs[last.self].elements)
  /\ Converted(heap, svgs[last.self])

\* C2: the SVG object shapes_to_paths returns has as many shapes as the
\* document had, in the same order, the i-th being as_path of the i-th, and
\* none of a basic-shape class.
C2_ConvertsEveryShape ==
  [][(last'.op = "shapes_to_paths" /\ last'.err = "") =>
       LET s == ShapesOf(heap, svgs[last'.self])
           r == ShapesOf(heap', svgs'[last'.ret])
       IN /\ s.err = "" /\ r.err = ""
          /\ Len(r.val) = Len(s.val)
          /\ \A i \in 1..Len(r.val) :
               /\ r.val[i] = as_path(s.val[i]).val
               /\ r.val[i].cls \notin BasicClasses]_vars

\* the cache of self is populated and is what shapes() alone leaves there:
\* every entry is the decoding of its element, still in the tree
OnlyRead(h, self) ==
  /\ ~self.elements.none
  /\ ~Converted(h, self)
  /\ \A i \in 1..Len(self.elements.list) :
       self.elements.list[i][1] \in Range(Iter(h, self.svg_root))

\* C3: shapes() changes nothing of the document, and a tostring() that
\* follows only shapes() calls returns the bytes of the tree as it was.
C3_ShapesIsReadOnly ==
  [][/\ last'.op = "shapes" =>
          /\ heap' = heap
          /\ Extract(heap', svgs'[last'.self].svg_root)
               = Extract(heap, svgs[last'.self].svg_root)
     /\ (last'.op = "tostring" /\ OnlyRead(heap, svgs[last'.self])) =>
          /\ last'.err = ""
          /\ Extract(heap', svgs'[last'.self].svg_root)
               = Extract(heap, svgs[last'.self].svg_root)]_vars

RECURSIVE Others(_, _, _)
\* the elements below id whose tag is none of the seven namespaced shape
\* tags, each with its position, tag and attributes
Others(h, id, pos) ==
  (IF h[id].tag \in {NsTag(k) : k \in ShapeNames} THEN {}
   ELSE {<<pos, h[id].tag, h[id].attrib>>})
  \cup UNION {Others(h, h[id].kids[i], Append(pos, i)) : i \in 1..Len(h[id].kids)}

\* C4: an element is an entry of shapes() exactly when its tag is one of the
\* seven namespaced shape tags, and shapes_to_paths and tostring leave every
\* other element where and as it was.
C4_SevenNamespacedTags ==
  /\ [](\A n \in 1..Len(svgs) :
          OnlyRead(heap, svgs[n]) =>
            {svgs[n].elements.list[i][1] : i \in 1..Len(svgs[n].elements.list)}
              = {id \in Range(Iter(heap, svgs[n].svg_root)) :
                   heap[id].tag \in {NsTag(k) : k \in ShapeNames}})
  /\ [][(last'.op \in {"shapes_to_paths", "tostring"} /\ last'.err = "") =>
          LET ret == IF last'.op = "tostring" THEN last'.self ELSE last'.ret
          IN Others(heap', svgs'[ret].svg_root, <<>>)
               = Others(heap, svgs[last'.self].svg_root, <<>>)]_vars

\* the clip containers of the tree below root, and the reference to one
ClipContainers(h, root) ==
  {id \in Range(Iter(h, root)) :
     h[id].tag = NsTag("clipPath") /\ "id" \in DOMAIN h[id].attrib}

Url(id) == "url(#" \o id \o ")"

\* the ids of the clip containers of self's tree that a shape of the document
\* refers to
Referenced(h, self) ==
  {h[c].attrib["id"] : c \in
     {c \in ClipContainers(h, self.svg_root) :
        /\ ShapesOf(h, self).err = ""
        /\ \E i \in 1..Len(ShapesOf(h, self).val) :
             ShapesOf(h, self).val[i].fields["clip_path"] = Url(h[c].attrib["id"])}}

\* C6: after apply_clip_paths no shape of the resulting document refers to a
\* clip container that was referenced, the container is gone from the tree,
\* and so is a wrapper it left empty.
C6_ClipPathsResolved ==
  [][(last'.op = "apply_clip_paths" /\ last'.err = "") =>
       \A cid \in Referenced(heap, svgs[last'.self]) :
         LET after == svgs'[last'.ret]
         IN /\ ShapesOf(heap', after).err = ""
            /\ \A i \in 1..Len(ShapesOf(heap', after).val) :
                 ShapesOf(heap', after).val[i].fields["clip_path"] # Url(cid)
            /\ \A id \in ClipContainers(heap', after.svg_root) :
                 heap'[id].attrib["id"] # cid
            /\ \A id \in Range(Iter(heap', after.svg_root)) :
                 ~(heap'[id].tag = NsTag("defs") /\ heap'[id].kids = <<>>)]_vars

C10_CacheFollowsTree ==
  /\ [](/\ \A n \in 1..Len(svgs) : \A i \in 1..Len(svgs[n].elements.list) :
             svgs[n].elements.list[i][1] \in Range(Iter(heap, svgs[n].svg_root))
        /\ last.op = "tostring" => last.err = "")
  /\ [][(last.op = "tostring" /\ last'.op = "tostring" /\ last'.self = last.self) =>
          /\ last'.err = ""
          /\ Extract(heap', svgs'[last'.self].svg_root)
               = Extract(heap, svgs[last.self].svg_root)]_vars

(***************************************************************************)
(* The codec on its own: a shape is encoded to an element (line 36-42) and *)
(* the element decoded again (line 27-34).                                 *)
(***************************************************************************)
ClipValues == {"", "url(#c)", "url(#e)"}

FieldValues(f) ==
  CASE f = "clip_path" -> ClipValues
    [] f = "d"         -> {"", "M0,0"}
    [] f = "points"    -> {"", "0,0 1,1"}
    [] OTHER           -> {"#0.0", "#1.0"}

\* the instances of the shape dataclasses the codec is given
ShapeValues ==
  UNION {{[cls |-> c, fields |-> fs] :
            fs \in {g \in [FieldSet(c) -> UNION {FieldValues(f) : f \in FieldSet(c)}] :
                      \A f \in FieldSet(c) : g[f] \in FieldValues(f)}} :
         c \in Classes}

CodecInit ==
  /\ \E s \in ShapeValues :
       codec = [pc |-> "shape", shape |-> s, el |-> El("", NoAttrib, <<>>),
                back |-> Raise("")]
  /\ heap = <<>>
  /\ svgs = <<>>
  /\ last = Call("none", 0, FALSE, "", 0)
  /\ affine = NoAffine

Encode ==
  /\ codec.pc = "shape"
  /\ codec' = [codec EXCEPT !.pc = "el", !.el = _data_to_el(codec.shape)]
  /\ UNCHANGED <<heap, svgs, last, affine>>

Decode ==
  /\ codec.pc = "el"
  /\ codec' = [codec EXCEPT !.pc = "back", !.back = _el_to_data(codec.el)]
  /\ UNCHANGED <<heap, svgs, last, affine>>

CodecNext == Encode \/ Decode

SpecCodec == CodecInit /\ [][CodecNext]_vars

MaxFuncs == 3         \* functions in one transform list

Affine2D(a, b, c, d, e, f) == <<a, b, c, d, e, f>>

identity == Affine2D(1, 0, 0, 1, 0, 0)

\* t.map_point(p): (a x + c y + e, b x + d y + f)
map_point(t, p) == <<t[1] * p[1] + t[3] * p[2] + t[5], t[2] * p[1] + t[4] * p[2] + t[6]>>

\* a product that applies its second argument first
product_SecondFirst(A, B) ==
  Affine2D(B[1] * A[1] + B[2] * A[3],
           B[1] * A[2] + B[2] * A[4],
           B[3] * A[1] + B[4] * A[3],
           B[3] * A[2] + B[4] * A[4],
           B[5] * A[1] + B[6] * A[3] + A[5],
           B[5] * A[2] + B[6] * A[4] + A[6])

\* Affine2D.product(A, B): the transform that applies A first, then B
\* (test_product, lines 130-136)
product(A, B) ==
  Affine2D(A[1] * B[1] + A[2] * B[3],
           A[1] * B[2] + A[2] * B[4],
           A[3] * B[1] + A[4] * B[3],
           A[3] * B[2] + A[4] * B[4],
           A[5] * B[1] + A[6] * B[3] + B[5],
           A[5] * B[2] + A[6] * B[4] + B[6])

\* one function of a transform list, its name and its numbers, as a
\* transform: translate takes tx and an optional ty (0), scale takes sx and
\* an optional sy (sx), matrix takes the six coefficients
FuncTransform(fn) ==
  CASE fn.name = "matrix"    -> Affine2D(fn.args[1], fn.args[2], fn.args[3],
                                         fn.args[4], fn.args[5], fn.args[6])
    [] fn.name = "translate" -> Affine2D(1, 0, 0, 1, fn.args[1],
                                         IF Len(fn.args) > 1 THEN fn.args[2] ELSE 0)
    [] fn.name = "scale"     -> Affine2D(fn.args[1], 0, 0,
                                         IF Len(fn.args) > 1 THEN fn.args[2] ELSE fn.args[1],
                                         0, 0)

RECURSIVE ParseFrom(_, _)
\* each function read is applied before the transform read so far
ParseFrom(transform, fns) ==
  IF fns = <<>> THEN transform
  ELSE ParseFrom(product(FuncTransform(Head(fns)), transform), Tail(fns))

\* parse_svg_transform: the list "f1 f2 ... fn" is the matrix f1 f2 ... fn,
\* which is what the expected values of lines 41-50 are
parse_svg_transform(fns) == ParseFrom(identity, fns)

Rect(x, y, w, h) == [x |-> x, y |-> y, w |-> w, h |-> h]

\* a rect_to_rect that treats each axis on its own
rect_to_rect_PerAxis(src, dst) ==
  LET sx == IF src.w = 0 THEN 1 ELSE dst.w \div src.w
      sy == IF src.h = 0 THEN 1 ELSE dst.h \div src.h
  IN Affine2D(sx, 0, 0, sy, dst.x - src.x * sx, dst.y - src.y * sy)

\* Affine2D.rect_to_rect(src, dst), as lines 114-124 require it
rect_to_rect(src, dst) ==
  IF src.w = 0 \/ src.h = 0 THEN identity
  ELSE IF dst.w = 0 \/ dst.h = 0 THEN Affine2D(0, 0, 0, 0, 0, 0)
  ELSE LET sx == dst.w \div src.w
           sy == dst.h \div src.h
       IN Affine2D(sx, 0, 0, sy, dst.x - src.x * sx, dst.y - src.y * sy)

Fn(name, args) == [name |-> name, args |-> args]

\* the functions a transform list is made of
Funcs ==
  { Fn("matrix", <<2, 0, 0, 3, 1, 6>>), Fn("matrix", <<4, 3, 2, 1, 5, 6>>),
    Fn("translate", <<-5>>), Fn("translate", <<3, 2>>),
    Fn("scale", <<2>>), Fn("scale", <<-2, -3>>) }

TransformLists == UNION {[1..n -> Funcs] : n \in 1..MaxFuncs}

\* the rectangles rect_to_rect is given: a source with an area, mapped to
\* any destination, one without an area at the origin included, and the
\* all-zero source of line 119
SrcRects == {Rect(x, y, 10, h) : x \in {0, 20}, y \in {0, 10}, h \in {10, -10}}

DstRects ==
  {Rect(x, y, 1000, 1000) : x \in {0, 50}, y \in {0, 50}}
    \cup {Rect(0, 0, 0, 1000), Rect(0, 0, 1000, 0), Rect(0, 0, 0, 0)}

RectPairs ==
  (SrcRects \X DstRects) \cup {<<Rect(0, 0, 0, 0), Rect(0, 0, 1000, 1000)>>}

Points == {<<0, 0>>, <<1, 0>>, <<0, 1>>, <<-3, 4>>}

AffineInit ==
  /\ \/ \E fns \in TransformLists :
          affine = [pc |-> "transform", arg |-> fns, result |-> identity]
     \/ \E sd \in RectPairs :
          affine = [pc |-> "rects", arg |-> sd, result |-> identity]
  /\ heap = <<>>
  /\ svgs = <<>>
  /\ last = Call("none", 0, FALSE, "", 0)
  /\ codec = NoCodec

ParseTransform ==
  /\ affine.pc = "transform"
  /\ affine' = [affine EXCEPT !.pc = "parsed", !.result = parse_svg_transform(affine.arg)]
  /\ UNCHANGED <<heap, svgs, last, codec>>

RectToRect ==
  /\ affine.pc = "rects"
  /\ affine' = [affine EXCEPT !.pc = "mapped",
                              !.result = rect_to_rect(affine.arg[1], affine.arg[2])]
  /\ UNCHANGED <<heap, svgs, last, codec>>

AffineNext == ParseTransform \/ RectToRect

SpecAffine == AffineInit /\ [][AffineNext]_vars

RECURSIVE ProductInOrder(_)
\* product(...product(f1, f2)..., fn)
ProductInOrder(ts) ==
  IF Len(ts) = 1 THEN ts[1]
  ELSE product(ProductInOrder(SubSeq(ts, 1, Len(ts) - 1)), ts[Len(ts)])

RECURSIVE MapFirstToLast(_, _)
\* fn.map_point(...f2.map_point(f1.map_point(p))...)
MapFirstToLast(ts, p) ==
  IF ts = <<>> THEN p ELSE MapFirstToLast(Tail(ts), map_point(Head(ts), p))

RECURSIVE MapLastToFirst(_, _)
\* f1.map_point(f2.map_point(...fn.map_point(p)...))
MapLastToFirst(ts, p) ==
  IF ts = <<>> THEN p ELSE map_point(Head(ts), MapLastToFirst(Tail(ts), p))

Transforms(fns) == [i \in 1..Len(fns) |-> FuncTransform(fns[i])]

TestedList == <<Fn("matrix", <<2, 0, 0, 3, 1, 6>>), Fn("matrix", <<4, 3, 2, 1, 5, 6>>)>>

\* C8 as claimed: the result of parsing is the product of the functions in
\* document order, so that it maps a point through the first function
\* first, and the tested list gives (8,9,4,3,11,24).
C8_DocumentOrderProduct ==
  affine.pc = "parsed" =>
    /\ affine.result = ProductInOrder(Transforms(affine.arg))
    /\ \A p \in Points :
         map_point(affine.result, p) = MapFirstToLast(Transforms(affine.arg), p)
    /\ affine.arg = TestedList => affine.result = Affine2D(8, 9, 4, 3, 11, 24)

\* C8 as amended: the result of parsing maps a point through the LAST
\* function of the list first and the first function last (it is
\* product(fn, ...product(f2, f1)...)), and the tested list gives
\* (8,9,4,3,11,24).
C8_LastFunctionFirst ==
  affine.pc = "parsed" =>
    /\ \A p \in Points :
         map_point(affine.result, p) = MapLastToFirst(Transforms(affine.arg), p)
    /\ affine.arg = TestedList => affine.result = Affine2D(8, 9, 4, 3, 11, 24)

\* the tested list has been parsed, and the two orders differ on it
C8_Witness ==
  /\ affine.pc = "parsed"
  /\ affine.arg = TestedList
  /\ affine.result # ProductInOrder(Transforms(affine.arg))

TestedRects ==
  { <<Rect(0, 0, 10, 10), Rect(0, 0, 1000, 1000), Affine2D(100, 0, 0, 100, 0, 0)>>,
    <<Rect(0, 10, 10, -10), Rect(0, 0, 1000, 1000), Affine2D(100, 0, 0, -100, 0, 1000)>>,
    <<Rect(0, 0, 0, 0), Rect(0, 0, 1000, 1000), Affine2D(1, 0, 0, 1, 0, 0)>>,
    <<Rect(0, 0, 10, 10), Rect(0, 0, 0, 1000), Affine2D(0, 0, 0, 0, 0, 0)>> }

Tested(src, dst, t) ==
  \A c \in TestedRects : (c[1] = src /\ c[2] = dst) => t = c[3]

====
